---- MODULE Spec2Model ----
(***************************************************************************)
(* Election bot (src/bot.py): command handlers over three spreadsheet      *)
(* tables ("Cycles", "All Signups", "All Winners").                        *)
(*                                                                         *)
(* A sheet is the sequence of its rows as sheet.get_all_values() returns   *)
(* them: row 1 is the header row, a row is the tuple of its cells, and the *)
(* 1-based row and column numbers of update_cell / delete_rows are the     *)
(* indices of these sequences.  A record is the dict that get_all_records  *)
(* builds from a row: a function from header names to cells.               *)
(*                                                                         *)
(* Every handler is one action: between its first await (defer) and its    *)
(* last (followup.send) the code only makes blocking calls, so the event   *)
(* loop runs nothing else in between.  In Spec the spreadsheet service     *)
(* answers every call (retry_api_call returns its first result).           *)
(***************************************************************************)
EXTENDS Integers, Sequences, FiniteSets, TLC

VARIABLES
    signups,       \* all_values of sheet "All Signups" (header row first)
    winners,       \* all_values of sheet "All Winners" (empty until first transfer)
    G3,            \* cell Cycles!G3: the signups-open flag, as text
    G4,            \* cell Cycles!G4: the phase
    views,         \* SeatView objects still alive (closures of signup)
    transfers,     \* history: <<user_id, seat_id>> of every winner_row appended
    header_row,    \* header cleaning: the raw header row handed to it
    final_headers, \* header cleaning: what it made of header_row
    retry,         \* one invocation of retry_api_call: where it is, what it did
    missing,       \* worksheets for which spreadsheet.worksheet raises WorksheetNotFound
    last,          \* the last command run with faults: what it read and what it answered
    tasks          \* the handlers that the event loop has started: where each one is

\* the variables that the commands of the bot leave alone
others == <<header_row, final_headers, retry, missing, last, tasks>>

vars == <<signups, winners, G3, G4, views, transfers, header_row, final_headers, retry,
          missing, last, tasks>>

----------------------------------------------------------------------------
(* Bounds of the model *)

MaxRows == 3          \* data rows the model lets "All Signups" grow to
MaxViews == 1         \* SeatViews alive at the same time
MaxActs == 2          \* stamina the model lets candidates spend in Spec, in units of 5
MaxWinnerRows == 3    \* rows the model lets "All Winners" grow to
MaxHeaderLen == 3     \* cells of a raw header row

----------------------------------------------------------------------------
(* Inputs: Discord users, and the choices the commands offer *)

\* The model draws one of the three party choices and two of the seven state
\* choices of /signup (lines 219-232).
Users == {1, 2}
Parties == {"Democrats"}
States == {"Austin", "Phoenix"}
Names == {"Ava", "Bo"}
CharacterNames == {"Ava", " ava ", "Bo"}

\* str() of the integers the model uses
Str(n) ==
    CASE n = 0 -> "0" [] n = 1 -> "1" [] n = 2 -> "2" [] n = 3 -> "3"
      [] n = 4 -> "4" [] n = 5 -> "5" [] n = 6 -> "6" [] n = 7 -> "7"
      [] n = 8 -> "8" [] n = 9 -> "9"

\* str.strip() on the texts the model uses
Strip(s) ==
    CASE s = " ava " -> "ava"
      [] s = " A"    -> "A"
      [] s = "A "    -> "A"
      [] s = " "     -> ""
      [] OTHER       -> s

\* str.lower() on the texts the model uses
Lower(s) ==
    CASE s = "Ava"   -> "ava"
      [] s = "Bo"    -> "bo"
      [] s = "TRUE"  -> "true"
      [] s = "FALSE" -> "false"
      [] s = "Austin"  -> "austin"
      [] s = "Phoenix" -> "phoenix"
      [] OTHER       -> s

\* str.upper() on str(True) and str(False)
Upper(s) ==
    CASE s = "True"  -> "TRUE"
      [] s = "False" -> "FALSE"
      [] OTHER       -> s

PyStrBool(b) == IF b THEN "True" ELSE "False"

Range(s) == {s[i] : i \in DOMAIN s}

\* A record (one dict of get_all_records) is kept as the header names zipped
\* with the cells of its row: [headers |-> ..., row |-> ...].

\* the positions of key among the header names of a record
KeyAt(record, key) == {k \in 1..Len(record.headers) : record.headers[k] = key}

\* record.get(key, default)
Get(record, key, default) ==
    IF KeyAt(record, key) = {} THEN default
    ELSE record.row[CHOOSE k \in KeyAt(record, key) : TRUE]

\* str(record.get(key, "")) for a column that holds integers
GetStr(record, key) ==
    IF KeyAt(record, key) = {} THEN ""
    ELSE Str(record.row[CHOOSE k \in KeyAt(record, key) : TRUE])

----------------------------------------------------------------------------
(* Sheet access layer *)

SignupHeaders ==
    <<"User ID", "Name", "Seat ID", "Party", "Phase", "Office",
      "Corruption", "Stamina", "Points", "Winner">>

WinnersHeaders ==
    <<"Year", "Office", "State", "District", "Candidate", "Party",
      "Points", "Votes", "Corruption", "Final Score", "Winner">>

\* f"Column_{i+1}" for the i-th (0-based) cell; k is the 1-based position
Placeholder(k) == "Column_" \o Str(k)

\* lines 178-184: the loop that builds cleaned_headers from the first k cells;
\* a blank cell gets a positional placeholder
RECURSIVE cleaned_headers(_, _)
cleaned_headers(row, k) ==
    IF k = 0 THEN <<>>
    ELSE Append(cleaned_headers(row, k - 1),
                IF Strip(row[k]) # "" THEN Strip(row[k]) ELSE Placeholder(k))

\* header_count[header] once the loop of lines 189-195 has seen the first k
\* names: the occurrences so far minus one
header_count(cleaned, k, header) ==
    Cardinality({j \in 1..k : cleaned[j] = header}) - 1

\* line 192: f"{header}_{header_count[header]}"
Suffixed(header, count) == header \o "_" \o Str(count)

\* lines 187-195: the loop that builds final_headers from the first k names;
\* a name already in header_count gets the suffix _<count>
RECURSIVE dedup_headers(_, _)
dedup_headers(cleaned, k) ==
    IF k = 0 THEN <<>>
    ELSE Append(dedup_headers(cleaned, k - 1),
                IF \E j \in 1..(k - 1) : cleaned[j] = cleaned[k]
                THEN Suffixed(cleaned[k], header_count(cleaned, k, cleaned[k]))
                ELSE cleaned[k])

\* lines 176-195: the header cleaning of get_all_records_safe
clean_header_row(row) ==
    dedup_headers(cleaned_headers(row, Len(row)), Len(row))

\* The header rows of the two registries are fixed points of the cleaning
\* (HeaderRowsAreClean below evaluates the loops on them), so a read of a
\* registry takes them as they are instead of running the loops again.
CleanHeaders(row) ==
    IF row = SignupHeaders \/ row = WinnersHeaders THEN row
    ELSE clean_header_row(row)

HeaderRowsAreClean ==
    /\ clean_header_row(SignupHeaders) = SignupHeaders
    /\ clean_header_row(WinnersHeaders) = WinnersHeaders

\* lines 198-199: the cleaned header row is written back when it differs
AfterRead(sheet) ==
    IF Len(sheet) >= 2 /\ CleanHeaders(sheet[1]) # sheet[1]
    THEN [sheet EXCEPT ![1] = CleanHeaders(sheet[1])]
    ELSE sheet

\* one dict of sheet.get_all_records(expected_headers=headers)
RowToRecord(headers, row) == [headers |-> headers, row |-> row]

\* lines 172-174, 202: the list of dicts of the data rows; record k is sheet
\* row k+1
get_all_records_safe(sheet) ==
    IF Len(sheet) < 2 THEN <<>>
    ELSE [k \in 1..(Len(sheet) - 1) |->
            RowToRecord(CleanHeaders(sheet[1]), sheet[k + 1])]

update_cell(sheet, i, col, value) == [sheet EXCEPT ![i][col] = value]

append_row(sheet, row) == Append(sheet, row)

delete_rows(sheet, i) ==
    [k \in 1..(Len(sheet) - 1) |-> IF k < i THEN sheet[k] ELSE sheet[k + 1]]

----------------------------------------------------------------------------
(* retry_api_call (lines 79-93) *)

max_retries == 3
initial_delay == 1

\* the operations of gspread the bot hands to retry_api_call
WrappedFuncs ==
    {"get_all_values", "update", "get_all_records", "acell", "update_acell",
     "append_row", "update_cell", "delete_rows"}

\* str(e) of the APIErrors the service answers with
APIErrors ==
    {"Request had invalid authentication credentials.",
     "INVALID AUTHENTICATION",
     "Quota exceeded",
     "The service is currently unavailable."}

\* the test of line 85 without .lower()
IsAuthenticationError_CaseSensitive(error_msg) ==
    error_msg \in {"Request had invalid authentication credentials."}

\* line 85: "invalid authentication" in error_msg.lower()
IsAuthenticationError(error_msg) ==
    error_msg \in {"Request had invalid authentication credentials.",
                   "INVALID AUTHENTICATION"}

RECURSIVE Pow2(_)
Pow2(n) == IF n = 0 THEN 1 ELSE 2 * Pow2(n - 1)

\* line 91: delay = initial_delay * (2 ** attempt)
Delay(attempt) == initial_delay * Pow2(attempt)

\* the test of line 88 one attempt too late
LastAttempt_OneLate(attempt) == attempt = max_retries

\* line 88: attempt == max_retries - 1
LastAttempt(attempt) == attempt = max_retries - 1

\* the handlers of the campaign commands that may be in the event loop together
Tasks == {1, 2}

\* no handler started
NoTasks == [t \in Tasks |-> [pc |-> "idle", cmd |-> "", i |-> 0, stamina |-> 0,
                             new_points |-> 0, points |-> 0, msg |-> ""]]

\* no command has run with faults
NoCommand == [tick |-> FALSE, cmd |-> "", msg |-> "", failed |-> {}]

\* no invocation yet
RetryIdle ==
    [pc |-> "idle", func |-> "", attempt |-> 0, calls |-> 0, waits |-> <<>>,
     error |-> "", result |-> ""]

\* line 80: the loop is entered with attempt 0
retry_start(func) ==
    /\ retry.pc = "idle"
    /\ max_retries > 0
    /\ retry' = [retry EXCEPT !.pc = "call", !.func = func]
    /\ UNCHANGED <<signups, winners, G3, G4, views, transfers, header_row, final_headers,
                   missing, last, tasks>>

\* line 82: func returns, and so does retry_api_call
func_returns ==
    /\ retry.pc = "call"
    /\ retry' = [retry EXCEPT !.pc = "returned", !.calls = @ + 1,
                              !.error = "", !.result = "value"]
    /\ UNCHANGED <<signups, winners, G3, G4, views, transfers, header_row, final_headers,
                   missing, last, tasks>>

\* lines 83-93: func raises gspread.exceptions.APIError
func_raises_APIError(error_msg) ==
    /\ retry.pc = "call"
    /\ retry' =
          IF IsAuthenticationError(error_msg)
          THEN [retry EXCEPT !.pc = "raised", !.calls = @ + 1, !.error = error_msg,
                             !.result = "ValueError"]
          ELSE IF LastAttempt(retry.attempt)
          THEN [retry EXCEPT !.pc = "raised", !.calls = @ + 1, !.error = error_msg,
                             !.result = "APIError"]
          ELSE [retry EXCEPT !.pc = "sleep", !.calls = @ + 1, !.error = error_msg,
                             !.waits = Append(@, Delay(retry.attempt))]
    /\ UNCHANGED <<signups, winners, G3, G4, views, transfers, header_row, final_headers,
                   missing, last, tasks>>

\* func raises an exception that line 83 does not catch
func_raises_other ==
    /\ retry.pc = "call"
    /\ retry' = [retry EXCEPT !.pc = "raised", !.calls = @ + 1,
                              !.error = "ConnectionError", !.result = "ConnectionError"]
    /\ UNCHANGED <<signups, winners, G3, G4, views, transfers, header_row, final_headers,
                   missing, last, tasks>>

\* line 93: time.sleep(delay) returns and the loop goes on
time_sleep ==
    /\ retry.pc = "sleep"
    /\ retry' = IF retry.attempt + 1 < max_retries
                 THEN [retry EXCEPT !.pc = "call", !.attempt = @ + 1]
                 ELSE [retry EXCEPT !.pc = "returned", !.result = "None"]
    /\ UNCHANGED <<signups, winners, G3, G4, views, transfers, header_row, final_headers,
                   missing, last, tasks>>

----------------------------------------------------------------------------
(* Cycle state *)

CycleYear == 2024

\* the seat reference rows of sheet "Cycles", as records
CycleSeats ==
    << [Year |-> 2024, State |-> "Austin",  SeatID |-> "REP-AU-1", Office |-> "Representative"],
       [Year |-> 2024, State |-> "Austin",  SeatID |-> "SEN-AU",   Office |-> "Senator"],
       [Year |-> 2026, State |-> "Austin",  SeatID |-> "GOV-AU",   Office |-> "Governor"],
       [Year |-> 2026, State |-> "Phoenix", SeatID |-> "REP-PH-1", Office |-> "Representative"] >>

get_current_cycle ==
    [year |-> CycleYear,
     signups_open |-> (Lower(G3) = "true"),
     phase |-> IF G4 = "" THEN "Primary" ELSE G4]

\* the seats of the state in every year
get_eligible_seats_AnyYear(year, state) ==
    SelectSeq(CycleSeats, LAMBDA r : Lower(r.State) = Lower(state))

get_eligible_seats(year, state) ==
    SelectSeq(CycleSeats,
              LAMBDA r : r.Year = year /\ Lower(r.State) = Lower(state))

----------------------------------------------------------------------------
(* /signup and the seat buttons *)

\* the duplicate check with Winner taken for a closed candidacy as well
ActiveInSignups_WinnerClosed(records, u) ==
    \E k \in DOMAIN records :
        /\ GetStr(records[k], "User ID") = Str(u)
        /\ Get(records[k], "Winner", "") \notin {"Withdrawn", "Loser", "Winner"}

\* the duplicate check on "All Signups" (lines 247-251, 309-313)
ActiveInSignups(records, u) ==
    \E k \in DOMAIN records :
        /\ GetStr(records[k], "User ID") = Str(u)
        /\ Get(records[k], "Winner", "") \notin {"Withdrawn", "Loser"}

\* the duplicate check on "All Winners" (lines 256-260, 316-320)
InWinners(records, u) ==
    \E k \in DOMAIN records : GetStr(records[k], "User ID") = Str(u)

\* the SeatView that signup builds: its closure and its seat list
SeatView(u, state, name, party, seats) ==
    [user |-> u, state |-> state, name |-> name, party |-> party, seats |-> seats]

\* custom ids of the buttons of a view: the first 25 seats
ButtonIds(view) ==
    {view.seats[k].SeatID :
        k \in 1..(IF Len(view.seats) < 25 THEN Len(view.seats) ELSE 25)}

\* what /signup answers, whether it sends a SeatView, and whether it got as
\* far as reading "All Winners"
signup_outcome(u, state, name, party) ==
    LET signups_records == get_all_records_safe(signups)
        winners_records == get_all_records_safe(winners)
        cycle == get_current_cycle
        seats == get_eligible_seats(cycle.year, state)
    IN  IF ActiveInSignups(signups_records, u)
        THEN [msg |-> "You are already signed up!", view |-> FALSE, read_winners |-> FALSE]
        ELSE IF InWinners(winners_records, u)
        THEN [msg |-> "You already have an active candidacy", view |-> FALSE, read_winners |-> TRUE]
        ELSE IF ~cycle.signups_open
        THEN [msg |-> "Signups are closed!", view |-> FALSE, read_winners |-> TRUE]
        ELSE IF seats = <<>>
        THEN [msg |-> "No eligible seats", view |-> FALSE, read_winners |-> TRUE]
        ELSE [msg |-> "Available seats", view |-> TRUE, read_winners |-> TRUE]

signup(u, state, name, party) ==
    LET out  == signup_outcome(u, state, name, party)
        view == SeatView(u, state, name, party,
                         get_eligible_seats(get_current_cycle.year, state))
    IN  /\ signups' = AfterRead(signups)
        /\ winners' = IF out.read_winners THEN AfterRead(winners) ELSE winners
        /\ IF out.view
           THEN /\ view \in views \/ Cardinality(views) < MaxViews
                /\ views' = views \cup {view}
           ELSE views' = views
        /\ UNCHANGED <<G3, G4, transfers, others>>

\* lines 136-155: the sheet after add_signup has appended its row
add_signup(sheet, user_id, name, seat_id, party, state, office) ==
    LET cycle == get_current_cycle
        row == <<user_id, name, seat_id, party, cycle.phase, office, 0, 100, 0, "">>
    IN  append_row(sheet, row)

\* line 297: next(s for s in self.seats if s["Seat ID"] == seat_id)
selected_seat(view, seat_id) ==
    view.seats[CHOOSE k \in 1..Len(view.seats) :
                  /\ view.seats[k].SeatID = seat_id
                  /\ \A j \in 1..(k - 1) : view.seats[j].SeatID # seat_id]

\* what a click on a seat button answers, and "All Signups" after it
seat_outcome(view, seat_id) ==
    LET signups_records == get_all_records_safe(signups)
        winners_records == get_all_records_safe(winners)
        read == AfterRead(signups)
    IN  IF ActiveInSignups(signups_records, view.user)
        THEN [msg |-> "You are already signed up for another race!", signups |-> read]
        ELSE IF InWinners(winners_records, view.user)
        THEN [msg |-> "You already have an active candidacy in the Winners sheet!",
              signups |-> read]
        ELSE [msg |-> "signed up",
              signups |-> add_signup(read, view.user, view.name, seat_id, view.party,
                                     view.state, selected_seat(view, seat_id).Office)]

seat_callback(view, seat_id) ==
    LET out == seat_outcome(view, seat_id)
    IN  /\ seat_id \in ButtonIds(view)
        /\ Len(out.signups) - 1 <= MaxRows
        /\ signups' = out.signups
        /\ winners' = AfterRead(winners)
        /\ UNCHANGED <<G3, G4, views, transfers, others>>

\* the view's timeout of 60 s (line 278): its buttons stop answering
view_timeout(view) ==
    /\ view \in views
    /\ views' = views \ {view}
    /\ UNCHANGED <<signups, winners, G3, G4, transfers, others>>

----------------------------------------------------------------------------
(* /withdraw *)

Min(S) == CHOOSE x \in S : \A y \in S : x <= y

\* the match of /withdraw by the name alone
WithdrawMatches_AnyUser(records, u, character_name) ==
    {k \in DOMAIN records :
        Lower(Strip(Get(records[k], "Name", ""))) = Lower(Strip(character_name))}

\* line 363: the records the loop stops at, by name and user
WithdrawMatches(records, u, character_name) ==
    {k \in DOMAIN records :
        /\ Lower(Strip(Get(records[k], "Name", ""))) = Lower(Strip(character_name))
        /\ GetStr(records[k], "User ID") = Str(u)}

\* /withdraw without the test of lines 364-366
withdraw_outcome_NoTerminalTest(u, character_name) ==
    LET records == get_all_records_safe(signups)
        read == AfterRead(signups)
        matches == WithdrawMatches(records, u, character_name)
    IN  IF matches = {}
        THEN [msg |-> "No signup found", signups |-> read]
        ELSE LET k == CHOOSE m \in matches : \A n \in matches : m <= n
             IN  [msg |-> "has withdrawn", signups |-> delete_rows(read, k + 1)]

\* /withdraw marking the row Withdrawn instead of deleting it
withdraw_outcome_MarksRow(u, character_name) ==
    LET records == get_all_records_safe(signups)
        read == AfterRead(signups)
        matches == WithdrawMatches(records, u, character_name)
    IN  IF matches = {}
        THEN [msg |-> "No signup found", signups |-> read]
        ELSE IF Get(records[Min(matches)], "Winner", "") \in {"Winner", "Loser"}
        THEN [msg |-> "Cannot withdraw", signups |-> read]
        ELSE [msg |-> "has withdrawn",
              signups |-> update_cell(read, Min(matches) + 1, 10, "Withdrawn")]

\* what /withdraw answers, and "All Signups" after it; record k is sheet row k+1
withdraw_outcome(u, character_name) ==
    LET records == get_all_records_safe(signups)
        read == AfterRead(signups)
        matches == WithdrawMatches(records, u, character_name)
    IN  IF matches = {}
        THEN [msg |-> "No signup found", signups |-> read]
        ELSE IF Get(records[Min(matches)], "Winner", "") \in {"Winner", "Loser"}
        THEN [msg |-> "Cannot withdraw", signups |-> read]
        ELSE [msg |-> "has withdrawn", signups |-> delete_rows(read, Min(matches) + 1)]

withdraw(u, character_name) ==
    /\ signups' = withdraw_outcome(u, character_name).signups
    /\ UNCHANGED <<winners, G3, G4, views, transfers, others>>

----------------------------------------------------------------------------
(* /rally and /canvassing *)

RallyCost == 10
\* the draw of /rally with an upper end one too far
RallyPoints_OneMore == 5..16
RallyPoints == 5..15
CanvassingCost == 5
CanvassingPoints == 3..10

Max2(a, b) == IF a >= b THEN a ELSE b

\* the loop stopping at the first record that is not Withdrawn, of any user
ActionMatches_AnyUser(records, u) ==
    {k \in DOMAIN records : Get(records[k], "Winner", "") # "Withdrawn"}

\* lines 396, 433: the records the loop stops at
ActionMatches(records, u) ==
    {k \in DOMAIN records :
        /\ GetStr(records[k], "User ID") = Str(u)
        /\ Get(records[k], "Winner", "") # "Withdrawn"}

\* the command without the "Not enough stamina!" test
ActionOutcome_NoStaminaTest(sheet, u, cost, points) ==
    LET records == get_all_records_safe(sheet)
        read == AfterRead(sheet)
        matches == {k \in DOMAIN records :
                       /\ GetStr(records[k], "User ID") = Str(u)
                       /\ Get(records[k], "Winner", "") # "Withdrawn"}
    IN  IF matches = {}
        THEN [msg |-> "You are not signed up or have withdrawn.", sheet |-> read]
        ELSE LET k == CHOOSE m \in matches : \A n \in matches : m <= n
                 stamina == IF Get(records[k], "Stamina", 0) - cost > 0
                            THEN Get(records[k], "Stamina", 0) - cost ELSE 0
                 new_points == Get(records[k], "Points", 0) + points
             IN  [msg |-> "gained",
                  sheet |-> update_cell(update_cell(read, k + 1, 8, stamina),
                                        k + 1, 9, new_points)]

\* lines 394-410, 431-447: what the command answers, and the sheet after it;
\* record k is sheet row k+1
ActionOutcome(sheet, u, cost, points) ==
    LET records == get_all_records_safe(sheet)
        read == AfterRead(sheet)
        matches == ActionMatches(records, u)
    IN  IF matches = {}
        THEN [msg |-> "You are not signed up or have withdrawn.", sheet |-> read]
        ELSE LET i == Min(matches) + 1
                 record == records[Min(matches)]
             IN  IF Get(record, "Stamina", 0) < cost
                 THEN [msg |-> "Not enough stamina!", sheet |-> read]
                 ELSE LET stamina == Max2(Get(record, "Stamina", 0) - cost, 0)
                          new_points == Get(record, "Points", 0) + points
                      IN  [msg |-> "gained",
                           sheet |-> update_cell(update_cell(read, i, 8, stamina),
                                                 i, 9, new_points)]

\* lines 389, 426: the sheet the phase selects
ActionSheet == IF get_current_cycle.phase = "Primary" THEN "All Signups" ELSE "All Winners"

perform_action(u, cost, points) ==
    LET out == ActionOutcome(IF ActionSheet = "All Signups" THEN signups ELSE winners,
                             u, cost, points)
    IN  /\ signups' = IF ActionSheet = "All Signups" THEN out.sheet ELSE signups
        /\ winners' = IF ActionSheet = "All Signups" THEN winners ELSE out.sheet
        /\ UNCHANGED <<G3, G4, views, transfers, others>>

rally(u, points) ==
    /\ points \in RallyPoints
    /\ perform_action(u, RallyCost, points)

canvassing(u, points) ==
    /\ points \in CanvassingPoints
    /\ perform_action(u, CanvassingCost, points)

----------------------------------------------------------------------------
(* /tally_winners *)

\* the test of the grouping with Loser left out of the list
NonTerminal_LoserOpen(record) ==
    Get(record, "Winner", "") \notin {"Withdrawn", "Winner"}

NonTerminal(record) ==
    Get(record, "Winner", "") \notin {"Withdrawn", "Winner", "Loser"}

\* the key of races: (seat_id, party)
RaceKey(record) == <<Get(record, "Seat ID", ""), Get(record, "Party", "")>>

\* races[key]: the non-terminal records of the key, in scan order
Candidates(records, key) ==
    SelectSeq(records, LAMBDA r : NonTerminal(r) /\ RaceKey(r) = key)

\* max(candidates, key=points): the first candidate with the highest points
MaxByPoints(candidates) ==
    candidates[CHOOSE k \in 1..Len(candidates) :
        /\ \A j \in 1..Len(candidates) :
              Get(candidates[j], "Points", 0) <= Get(candidates[k], "Points", 0)
        /\ \A j \in 1..(k - 1) :
              Get(candidates[j], "Points", 0) < Get(candidates[k], "Points", 0)]

\* a second pass that marks the winner and leaves the other candidates open
TallyMark_LosersLeftOpen(records, k) ==
    LET winner == MaxByPoints(Candidates(records, RaceKey(records[k])))
    IN  IF Get(records[k], "Name", "") = Get(winner, "Name", "")
        THEN "Winner" ELSE ""

\* lines 598-610: what is written in column 10 of a non-terminal record's row
TallyMark(records, k) ==
    LET winner == MaxByPoints(Candidates(records, RaceKey(records[k])))
    IN  IF Get(records[k], "Name", "") = Get(winner, "Name", "")
        THEN "Winner" ELSE "Loser"

\* the sheet after the second pass (lines 593-610); record k is sheet row k+1
TallySheet(sheet) ==
    LET records == get_all_records_safe(sheet)
        read == AfterRead(sheet)
    IN  [i \in 1..Len(read) |->
            IF i >= 2 /\ NonTerminal(records[i - 1])
            THEN [read[i] EXCEPT ![10] = TallyMark(records, i - 1)]
            ELSE read[i]]

\* lines 590, 608: the count the command reports
winners_declared(sheet) ==
    LET records == get_all_records_safe(sheet)
    IN  Cardinality({k \in DOMAIN records :
                        NonTerminal(records[k]) /\ TallyMark(records, k) = "Winner"})

\* /tally_winners without the test of line 563
tally_winners_AnyUser(administrator) ==
    /\ signups' = TallySheet(signups)
    /\ UNCHANGED <<winners, G3, G4, views, transfers, others>>

tally_winners(administrator) ==
    /\ signups' = IF administrator THEN TallySheet(signups) ELSE signups
    /\ UNCHANGED <<winners, G3, G4, views, transfers, others>>

----------------------------------------------------------------------------
(* /transfer_winners *)

\* seat_id.split("-") on the seat ids of the model
Split(seat_id) ==
    CASE seat_id = "REP-AU-1" -> <<"REP", "AU", "1">>
      [] seat_id = "SEN-AU"   -> <<"SEN", "AU">>
      [] seat_id = "GOV-AU"   -> <<"GOV", "AU">>
      [] seat_id = "REP-PH-1" -> <<"REP", "PH", "1">>
      [] OTHER                -> <<seat_id>>

\* lines 663-667
District(seat_id) ==
    LET parts == Split(seat_id)
    IN  IF Len(parts) >= 2 /\ Len(parts) >= 3
        THEN "District " \o parts[Len(parts)]
        ELSE ""

\* lines 654-659: the re-scan of "All Winners" for the record's (user, seat)
already_exists(winners_records, record) ==
    \E k \in DOMAIN winners_records :
        /\ GetStr(winners_records[k], "User ID") = GetStr(record, "User ID")
        /\ Get(winners_records[k], "Seat ID", "") = Get(record, "Seat ID", "")

\* lines 670-682
winner_row(record) ==
    << get_current_cycle.year,
       Get(record, "Office", ""),
       Get(record, "State", ""),
       District(Get(record, "Seat ID", "")),
       Get(record, "Name", ""),
       Get(record, "Party", ""),
       Get(record, "Points", 0),
       0,
       Get(record, "Corruption", 0),
       Get(record, "Points", 0),
       "Yes" >>

\* the Winner records that the loop of lines 648-685 transfers, in scan order
ToTransfer(records, winners_records) ==
    SelectSeq(records, LAMBDA r : /\ Get(r, "Winner", "") = "Winner"
                                  /\ ~already_exists(winners_records, r))

\* lines 643-646: the header row is appended when no record was read
WithHeaders(sheet) ==
    IF get_all_records_safe(sheet) = <<>>
    THEN append_row(AfterRead(sheet), WinnersHeaders)
    ELSE AfterRead(sheet)

transfer_winners(administrator) ==
    LET moved == ToTransfer(get_all_records_safe(signups), get_all_records_safe(winners))
    IN  IF ~administrator
        THEN UNCHANGED vars
        ELSE /\ Len(WithHeaders(winners)) + Len(moved) <= MaxWinnerRows
             /\ signups' = AfterRead(signups)
             /\ winners' = WithHeaders(winners) \o
                              [k \in 1..Len(moved) |-> winner_row(moved[k])]
             /\ transfers' = transfers \o
                    [k \in 1..Len(moved) |->
                        <<Get(moved[k], "User ID", 0), Get(moved[k], "Seat ID", "")>>]
             /\ UNCHANGED <<G3, G4, views, others>>

----------------------------------------------------------------------------
(* /open_signups and /close_signups *)

\* lines 114-117: G3 := str(status).upper()
update_signups_status(status) == G3' = Upper(PyStrBool(status))

open_signups(administrator) ==
    /\ IF administrator THEN update_signups_status(TRUE) ELSE G3' = G3
    /\ UNCHANGED <<signups, winners, G4, views, transfers, others>>

close_signups(administrator) ==
    /\ IF administrator THEN update_signups_status(FALSE) ELSE G3' = G3
    /\ UNCHANGED <<signups, winners, G4, views, transfers, others>>

----------------------------------------------------------------------------
(* Spec: the bot with a spreadsheet service that answers every call.  No     *)
(* command of the bot writes the year (G2) or the phase (G4): the phase is  *)
(* whatever the sheet holds when the bot starts.                            *)

Init ==
    /\ signups = <<SignupHeaders>>
    /\ winners = <<>>
    /\ G3 \in {"TRUE", "FALSE"}
    /\ G4 \in {"Primary", "General"}
    /\ views = {}
    /\ transfers = <<>>
    /\ header_row = <<>>
    /\ final_headers = <<>>
    /\ retry = RetryIdle
    /\ missing = {}
    /\ last = NoCommand
    /\ tasks = NoTasks

\* stamina spent by the rows of "All Signups", in units of 5
Spent(sheet) ==
    LET RECURSIVE Sum(_)
        Sum(i) == IF i > Len(sheet) THEN 0
                  ELSE (100 - sheet[i][8]) \div 5 + Sum(i + 1)
    IN  Sum(2)

\* the lowest and the highest value of a range of points
Ends(S) == {x \in S : (\A y \in S : x <= y) \/ (\A y \in S : y <= x)}

Next ==
    \/ \E u \in Users, state \in States, name \in Names, party \in Parties :
          signup(u, state, name, party)
    \/ \E view \in views : \E seat_id \in ButtonIds(view) : seat_callback(view, seat_id)
    \/ \E view \in views : view_timeout(view)
    \/ \E u \in Users, character_name \in CharacterNames : withdraw(u, character_name)
    \/ \E u \in Users, points \in Ends(RallyPoints) :
          /\ Spent(signups) + RallyCost \div 5 <= MaxActs
          /\ rally(u, points)
    \/ \E administrator \in BOOLEAN : tally_winners(administrator)
    \/ \E administrator \in BOOLEAN : transfer_winners(administrator)
    \/ \E administrator \in BOOLEAN : open_signups(administrator)
    \/ \E administrator \in BOOLEAN : close_signups(administrator)

Spec == Init /\ [][Next]_vars

----------------------------------------------------------------------------
(* SpecActions: one candidate who signs up, campaigns until the stamina is  *)
(* spent, and may be tallied; every draw of points is in, and no bound      *)
(* stops the actions.                                                       *)

NextActions ==
    \/ signup(1, "Austin", "Ava", "Democrats")
    \/ \E view \in views : \E seat_id \in ButtonIds(view) : seat_callback(view, seat_id)
    \/ \E view \in views : view_timeout(view)
    \/ withdraw(1, "Ava")
    \/ \E points \in RallyPoints : rally(1, points)
    \/ \E points \in CanvassingPoints : canvassing(1, points)
    \/ tally_winners(TRUE)

SpecActions == Init /\ [][NextActions]_vars

----------------------------------------------------------------------------
(* SpecHeaders: the header cleaning applied to every raw header row of up   *)
(* to MaxHeaderLen cells drawn from HeaderCells.                             *)

HeaderCells == {"", " ", "A", "A ", "A_1", "B"}

RawHeaderRows == UNION {[1..n -> HeaderCells] : n \in 1..MaxHeaderLen}

InitHeaders ==
    /\ signups = <<SignupHeaders>>
    /\ winners = <<>>
    /\ G3 = "FALSE"
    /\ G4 = "Primary"
    /\ views = {}
    /\ transfers = <<>>
    /\ header_row \in RawHeaderRows
    /\ final_headers = <<>>
    /\ retry = RetryIdle
    /\ missing = {}
    /\ last = NoCommand
    /\ tasks = NoTasks

\* lines 176-195 applied to the header row
clean_headers ==
    /\ final_headers = <<>>
    /\ final_headers' = clean_header_row(header_row)
    /\ UNCHANGED <<signups, winners, G3, G4, views, transfers, header_row, retry,
                   missing, last, tasks>>

NextHeaders == clean_headers

SpecHeaders == InitHeaders /\ [][NextHeaders]_vars

----------------------------------------------------------------------------
(* SpecRetry: one invocation of retry_api_call on each wrapped operation,   *)
(* with a service that may answer every call with a value or any error.     *)
(* A call that was made comes back and a sleep ends: weak fairness.         *)

NextRetry ==
    \/ \E func \in WrappedFuncs : retry_start(func)
    \/ func_returns
    \/ \E error_msg \in APIErrors : func_raises_APIError(error_msg)
    \/ func_raises_other
    \/ time_sleep

InitRetry ==
    /\ signups = <<SignupHeaders>>
    /\ winners = <<>>
    /\ G3 = "FALSE"
    /\ G4 = "Primary"
    /\ views = {}
    /\ transfers = <<>>
    /\ header_row = <<>>
    /\ final_headers = <<>>
    /\ retry = RetryIdle
    /\ missing = {}
    /\ last = NoCommand
    /\ tasks = NoTasks

SpecRetry == InitRetry /\ [][NextRetry]_vars /\ WF_vars(NextRetry)

----------------------------------------------------------------------------
(* SpecFaults: one user and the administrator, with worksheets that may be  *)
(* missing (get_sheet answers None, lines 73-77) and reads that may fail    *)
(* after the retries: get_all_records_safe then answers [] (lines 203-205)  *)
(* and get_current_cycle answers None (lines 105-107).  Writes to a         *)
(* worksheet that exists succeed.                                           *)

\* the worksheets that come and go in this specification
Worksheets == {"All Signups", "Cycles"}

\* the sets of reads that may fail during one command
FaultSets == {{}, {"All Signups"}, {"All Winners"}, {"Cycles"}}

\* get_all_records_safe on a worksheet during a command whose reads of the
\* worksheets in fail do not succeed
records_or_empty(name, sheet, fail) ==
    IF name \in missing \cup fail THEN <<>> ELSE get_all_records_safe(sheet)

\* get_current_cycle() is None
no_cycle(fail) == "Cycles" \in missing \cup fail

\* the reads of rows the command made that failed
FailedReads(names, fail) == {name \in names : name \in fail /\ name \notin missing}

Answer(cmd, msg, failed) ==
    [tick |-> ~last.tick, cmd |-> cmd, msg |-> msg, failed |-> failed]

\* lines 233-273 with faults: what /signup answers and whether it sends a view
signup_faulty_outcome(u, state, fail) ==
    LET signups_records == records_or_empty("All Signups", signups, fail)
        winners_records == records_or_empty("All Winners", winners, fail)
        seats == IF no_cycle(fail) THEN <<>>
                 ELSE get_eligible_seats(get_current_cycle.year, state)
    IN  IF "All Signups" \in missing
        THEN [msg |-> "Error accessing signups data.", view |-> FALSE, read |-> {}]
        ELSE IF ActiveInSignups(signups_records, u)
        THEN [msg |-> "You are already signed up!", view |-> FALSE,
              read |-> {"All Signups"}]
        ELSE IF "All Winners" \notin missing /\ InWinners(winners_records, u)
        THEN [msg |-> "You already have an active candidacy", view |-> FALSE,
              read |-> {"All Signups", "All Winners"}]
        ELSE IF no_cycle(fail)
        THEN [msg |-> "Error accessing cycle data.", view |-> FALSE,
              read |-> {"All Signups", "All Winners"}]
        ELSE IF ~get_current_cycle.signups_open
        THEN [msg |-> "Signups are closed!", view |-> FALSE,
              read |-> {"All Signups", "All Winners"}]
        ELSE IF seats = <<>>
        THEN [msg |-> "No eligible seats", view |-> FALSE,
              read |-> {"All Signups", "All Winners"}]
        ELSE [msg |-> "Available seats", view |-> TRUE,
              read |-> {"All Signups", "All Winners"}]

signup_faulty(u, state, name, party, fail) ==
    LET out == signup_faulty_outcome(u, state, fail)
        view == SeatView(u, state, name, party,
                         get_eligible_seats(get_current_cycle.year, state))
    IN  /\ IF out.view
           THEN /\ view \in views \/ Cardinality(views) < MaxViews
                /\ views' = views \cup {view}
           ELSE views' = views
        /\ last' = Answer("signup", out.msg, FailedReads(out.read, fail))
        /\ UNCHANGED <<signups, winners, G3, G4, transfers, header_row, final_headers,
                       retry, missing, tasks>>

\* lines 291-331 and 136-155 with faults: what a click answers, and whether
\* add_signup gets as far as append_row
seat_faulty_outcome(view, fail) ==
    LET signups_records == records_or_empty("All Signups", signups, fail)
        winners_records == records_or_empty("All Winners", winners, fail)
    IN  IF ActiveInSignups(signups_records, view.user)
        THEN [msg |-> "You are already signed up for another race!", append |-> FALSE]
        ELSE IF InWinners(winners_records, view.user)
        THEN [msg |-> "You already have an active candidacy in the Winners sheet!",
              append |-> FALSE]
        ELSE [msg |-> "signed up",
              append |-> "All Signups" \notin missing /\ ~no_cycle(fail)]

seat_callback_faulty(view, seat_id, fail) ==
    LET out == seat_faulty_outcome(view, fail)
    IN  /\ seat_id \in ButtonIds(view)
        /\ IF out.append
           THEN /\ Len(signups) < MaxRows
                /\ signups' = add_signup(signups, view.user, view.name, seat_id,
                                         view.party, view.state,
                                         selected_seat(view, seat_id).Office)
           ELSE signups' = signups
        /\ last' = Answer("seat_callback", out.msg,
                          FailedReads({"All Signups", "All Winners"}, fail))
        /\ UNCHANGED <<winners, G3, G4, views, transfers, header_row, final_headers,
                       retry, missing, tasks>>

\* lines 694-723 and 114-117 with faults, run by an administrator
set_signups_faulty(status) ==
    /\ G3' = IF "Cycles" \in missing THEN G3 ELSE Upper(PyStrBool(status))
    /\ last' = Answer(IF status THEN "open_signups" ELSE "close_signups",
                      IF status THEN "Election signups are now OPEN!"
                                ELSE "Election signups are now CLOSED!", {})
    /\ UNCHANGED <<signups, winners, G4, views, transfers, header_row, final_headers,
                   retry, missing, tasks>>

\* lines 561-616 with faults, run by an administrator
tally_winners_faulty(fail) ==
    /\ IF "All Signups" \in missing
       THEN /\ signups' = signups
            /\ last' = Answer("tally_winners", "Error accessing signups data.", {})
       ELSE /\ signups' = IF "All Signups" \in fail THEN signups ELSE TallySheet(signups)
            /\ last' = Answer("tally_winners", "Tallying complete!",
                              FailedReads({"All Signups"}, fail))
    /\ UNCHANGED <<winners, G3, G4, views, transfers, header_row, final_headers,
                   retry, missing, tasks>>

\* lines 619-691 with faults, run by an administrator
transfer_winners_faulty(fail) ==
    LET records == records_or_empty("All Signups", signups, fail)
        winners_records == records_or_empty("All Winners", winners, fail)
        moved == ToTransfer(records, winners_records)
        headed == IF winners_records = <<>> THEN append_row(winners, WinnersHeaders)
                  ELSE winners
    IN  IF "All Signups" \in missing \/ "All Winners" \in missing
        THEN /\ last' = Answer("transfer_winners", "Error accessing required sheets.", {})
             /\ UNCHANGED <<signups, winners, G3, G4, views, transfers, header_row,
                            final_headers, retry, missing, tasks>>
        ELSE IF no_cycle(fail)
        THEN /\ last' = Answer("transfer_winners", "Error accessing cycle data.", {})
             /\ UNCHANGED <<signups, winners, G3, G4, views, transfers, header_row,
                            final_headers, retry, missing, tasks>>
        ELSE /\ Len(headed) + Len(moved) <= MaxWinnerRows
             /\ winners' = headed \o [k \in 1..Len(moved) |-> winner_row(moved[k])]
             /\ transfers' = transfers \o
                    [k \in 1..Len(moved) |->
                        <<Get(moved[k], "User ID", 0), Get(moved[k], "Seat ID", "")>>]
             /\ last' = Answer("transfer_winners", "Transfer complete!",
                               FailedReads({"All Signups", "All Winners"}, fail))
             /\ UNCHANGED <<signups, G3, G4, views, header_row, final_headers,
                            retry, missing, tasks>>

\* a worksheet is renamed away, or renamed back, by an owner of the spreadsheet
worksheet_lost(name) ==
    /\ name \notin missing
    /\ missing' = missing \cup {name}
    /\ UNCHANGED <<signups, winners, G3, G4, views, transfers, header_row,
                   final_headers, retry, last, tasks>>

worksheet_back(name) ==
    /\ name \in missing
    /\ missing' = missing \ {name}
    /\ UNCHANGED <<signups, winners, G3, G4, views, transfers, header_row,
                   final_headers, retry, last, tasks>>

NextFaults ==
    \/ \E fail \in FaultSets : signup_faulty(1, "Austin", "Ava", "Democrats", fail)
    \/ \E view \in views, fail \in FaultSets :
          \E seat_id \in ButtonIds(view) : seat_callback_faulty(view, seat_id, fail)
    \/ \E view \in views : view_timeout(view)
    \/ \E status \in BOOLEAN : set_signups_faulty(status)
    \/ \E fail \in FaultSets : tally_winners_faulty(fail)
    \/ \E fail \in FaultSets : transfer_winners_faulty(fail)
    \/ \E name \in Worksheets : worksheet_lost(name)
    \/ \E name \in Worksheets : worksheet_back(name)

SpecFaults == InitRetry /\ [][NextFaults]_vars

----------------------------------------------------------------------------
(* /poll (lines 455-502) and SpecPoll: the command applied to registries of *)
(* up to MaxPollRows candidates with points drawn from PollPoints.           *)

MaxPollRows == 3

PollPoints == {0, 5, 10, 15, 75}

Scopes == {"nation", "Austin"}

\* f"{percentage:.1f}" of (points / total_points) * 100, in tenths of a
\* percent: the nearest tenth; at an exact half the binary floating-point
\* product decides, and up says which way
Percentage(points, total_points, up) ==
    LET q == (points * 1000) \div total_points
        r == (points * 1000) % total_points
    IN  IF 2 * r < total_points THEN q
        ELSE IF 2 * r > total_points THEN q + 1
        ELSE IF up THEN q + 1 ELSE q

\* sum(c.get("Points", 0) for c in candidates)
RECURSIVE total_points(_)
total_points(candidates) ==
    IF candidates = <<>> THEN 0
    ELSE Get(candidates[1], "Points", 0) + total_points(Tail(candidates))

\* lines 470, 486: the list comprehension that picks the candidates
poll_candidates(records, scope, phase) ==
    SelectSeq(records,
              LAMBDA r : /\ Lower(scope) # "nation" =>
                               Lower(Get(r, "State", "")) = Lower(scope)
                         /\ Get(r, "Phase", "") = phase
                         /\ Get(r, "Winner", "") # "Withdrawn")

\* the poll without the test of lines 475, 491: the division raises
\* ZeroDivisionError and the handler of line 500 answers
poll_outcome_NoZeroTest(scope, up) ==
    LET cycle == get_current_cycle
        sheet == IF cycle.phase = "Primary" THEN signups ELSE winners
        candidates == poll_candidates(get_all_records_safe(sheet), scope, cycle.phase)
        total == total_points(candidates)
    IN  IF candidates = <<>>
        THEN [msg |-> <<IF Lower(scope) = "nation" THEN "No candidates to poll."
                        ELSE "No candidates in " \o scope \o " to poll.">>,
              divisors |-> {}]
        ELSE IF total = 0
        THEN [msg |-> <<"An error occurred while polling.">>, divisors |-> {0}]
        ELSE [msg |-> <<IF Lower(scope) = "nation" THEN "National Poll Results:"
                        ELSE "Poll Results in " \o scope \o ":">> \o
                      [k \in 1..Len(candidates) |->
                          <<Get(candidates[k], "Name", ""), Get(candidates[k], "Party", ""),
                            Percentage(Get(candidates[k], "Points", 0), total, up)>>],
              divisors |-> {total}]

\* lines 459-497: what /poll answers, as the header line followed by one
\* <<name, party, tenths of a percent>> per candidate, and what it divided by
poll_outcome(scope, up) ==
    LET cycle == get_current_cycle
        sheet == IF cycle.phase = "Primary" THEN signups ELSE winners
        candidates == poll_candidates(get_all_records_safe(sheet), scope, cycle.phase)
        total == total_points(candidates)
    IN  IF candidates = <<>>
        THEN [msg |-> <<IF Lower(scope) = "nation" THEN "No candidates to poll."
                        ELSE "No candidates in " \o scope \o " to poll.">>,
              divisors |-> {}]
        ELSE IF total = 0
        THEN [msg |-> <<IF Lower(scope) = "nation" THEN "No polling data available."
                        ELSE "No polling data available in " \o scope \o ".">>,
              divisors |-> {}]
        ELSE [msg |-> <<IF Lower(scope) = "nation" THEN "National Poll Results:"
                        ELSE "Poll Results in " \o scope \o ":">> \o
                      [k \in 1..Len(candidates) |->
                          <<Get(candidates[k], "Name", ""), Get(candidates[k], "Party", ""),
                            Percentage(Get(candidates[k], "Points", 0), total, up)>>],
              divisors |-> {total}]

poll(scope, up) ==
    /\ last' = [tick |-> ~last.tick, cmd |-> "poll", msg |-> poll_outcome(scope, up).msg,
                failed |-> {}]
    /\ signups' = AfterRead(signups)
    /\ winners' = AfterRead(winners)
    /\ UNCHANGED <<G3, G4, views, transfers, header_row, final_headers, retry, missing,
                    tasks>>

\* a row of "All Signups" as add_signup and the campaign commands leave it
PollRow(u, phase, points, winner) ==
    <<u, IF u = 2 THEN "Bo" ELSE "Ava", "SEN-AU", "Democrats", phase, "Senator", 0,
      IF points = 0 THEN 100 ELSE IF points = 75 THEN 40 ELSE 90, points, winner>>

PollRows(u) ==
    {PollRow(u, phase, points, winner) :
        phase \in {"Primary", "General"}, points \in PollPoints, winner \in {"", "Loser"}}

\* "All Winners" after the transfer of a winner with 15 points
PollWinners ==
    <<WinnersHeaders,
      <<CycleYear, "Senator", "", "", "Ava", "Democrats", 15, 0, 0, 15, "Yes">>>>

InitPoll ==
    /\ \E n \in 0..MaxPollRows :
          \E rows \in [1..n -> UNION {PollRows(u) : u \in 1..MaxPollRows}] :
              /\ \A k \in 1..n : rows[k][1] = k
              /\ signups = <<SignupHeaders>> \o rows
    /\ winners \in {<<>>, PollWinners}
    /\ G3 = "FALSE"
    /\ G4 \in {"Primary", "General"}
    /\ views = {}
    /\ transfers = <<>>
    /\ header_row = <<>>
    /\ final_headers = <<>>
    /\ retry = RetryIdle
    /\ missing = {}
    /\ last = NoCommand
    /\ tasks = NoTasks

NextPoll == \E scope \in Scopes, up \in BOOLEAN : poll(scope, up)

SpecPoll == InitPoll /\ [][NextPoll]_vars

----------------------------------------------------------------------------
(* SpecConcurrent: two campaign commands of user 1 in the event loop        *)
(* together.  A handler is a coroutine: the loop runs it until it awaits,   *)
(* at defer() and at followup.send(), and only then runs another handler.   *)
(* get_all_records_safe, update_cell and retry_api_call with its time.sleep *)
(* are plain calls that return before the handler goes on.                  *)

Commands == {"rally", "canvassing"}

Cost(cmd) == IF cmd = "rally" THEN RallyCost ELSE CanvassingCost

PointsOf(cmd) == IF cmd = "rally" THEN RallyPoints ELSE CanvassingPoints

\* a handler that is not running: not started, suspended in an await, or over
Awaiting(ts, t) == ts[t].pc \in {"idle", "defer", "send", "done"}

\* a loop that would switch handlers between any two statements
Resumable_Preemptive(ts, t) == ts[t].pc \notin {"idle", "done"}

\* the event loop runs handler t on: t was started and is not over, and no other
\* handler is between two of its awaits
Resumable(ts, t) ==
    /\ ts[t].pc \notin {"idle", "done"}
    /\ \A o \in Tasks \ {t} : Awaiting(ts, o)

\* the next statements of handler t, run on st = [sheet, tasks] with the draw
\* of random.randint in points
task_step(st, t, points) ==
    LET task == st.tasks[t]
        To(sheet, next) == [sheet |-> sheet, tasks |-> [st.tasks EXCEPT ![t] = next]]
    IN  CASE task.pc = "defer" ->
               LET records == get_all_records_safe(st.sheet)
                   read == AfterRead(st.sheet)
                   matches == ActionMatches(records, 1)
               IN  IF matches = {}
                   THEN To(read, [task EXCEPT !.pc = "send",
                                    !.msg = "You are not signed up or have withdrawn."])
                   ELSE LET record == records[Min(matches)]
                        IN  IF Get(record, "Stamina", 0) < Cost(task.cmd)
                            THEN To(read, [task EXCEPT !.pc = "send",
                                             !.msg = "Not enough stamina!"])
                            ELSE To(read,
                                    [task EXCEPT
                                       !.pc = "update_stamina",
                                       !.i = Min(matches) + 1,
                                       !.points = points,
                                       !.stamina = Max2(Get(record, "Stamina", 0)
                                                          - Cost(task.cmd), 0),
                                       !.new_points = Get(record, "Points", 0) + points])
          [] task.pc = "update_stamina" ->
               To(update_cell(st.sheet, task.i, 8, task.stamina),
                  [task EXCEPT !.pc = "update_points"])
          [] task.pc = "update_points" ->
               To(update_cell(st.sheet, task.i, 9, task.new_points),
                  [task EXCEPT !.pc = "send", !.msg = "gained"])
          [] task.pc = "send" -> To(st.sheet, [task EXCEPT !.pc = "done"])

\* the sheet and the handlers as one value
Here == [sheet |-> IF ActionSheet = "All Signups" THEN signups ELSE winners,
         tasks |-> tasks]

\* the sheet and the handlers become st
Becomes(st) ==
    /\ signups' = IF ActionSheet = "All Signups" THEN st.sheet ELSE signups
    /\ winners' = IF ActionSheet = "All Signups" THEN winners ELSE st.sheet
    /\ tasks' = st.tasks
    /\ UNCHANGED <<G3, G4, views, transfers, header_row, final_headers, retry, missing,
                   last>>

\* the command arrives: the handler starts and awaits defer()
task_created(t, cmd) ==
    /\ tasks[t].pc = "idle"
    /\ Becomes([Here EXCEPT !.tasks[t].pc = "defer", !.tasks[t].cmd = cmd])

\* defer() is over: the handler reads the records, finds the row and tests the stamina
resume_from_defer(t, points) ==
    /\ tasks[t].pc = "defer"
    /\ Resumable(tasks, t)
    /\ points \in PointsOf(tasks[t].cmd)
    /\ Becomes(task_step(Here, t, points))

\* sheet.update_cell(i, 8, stamina)
update_stamina(t) ==
    /\ tasks[t].pc = "update_stamina"
    /\ Resumable(tasks, t)
    /\ Becomes(task_step(Here, t, 0))

\* sheet.update_cell(i, 9, new_points), and the handler awaits followup.send()
update_points(t) ==
    /\ tasks[t].pc = "update_points"
    /\ Resumable(tasks, t)
    /\ Becomes(task_step(Here, t, 0))

\* followup.send() is over: the user has the answer
followup_sent(t) ==
    /\ tasks[t].pc = "send"
    /\ Resumable(tasks, t)
    /\ Becomes(task_step(Here, t, 0))

\* the stamina that the candidate may have left
StaminaLevels == {100, 20, 15, 10, 5}

\* a row of "All Signups" as add_signup and the campaign commands leave it
CandidateRow(u, name, stamina) ==
    <<u, name, "SEN-AU", "Democrats", "Primary", "Senator", 0, stamina, 0, "">>

InitConcurrent ==
    /\ \E stamina \in StaminaLevels :
          signups = <<SignupHeaders, CandidateRow(2, "Bo", 100),
                      CandidateRow(1, "Ava", stamina)>>
    /\ winners = <<>>
    /\ G3 = "FALSE"
    /\ G4 \in {"Primary", "General"}
    /\ views = {}
    /\ transfers = <<>>
    /\ header_row = <<>>
    /\ final_headers = <<>>
    /\ retry = RetryIdle
    /\ missing = {}
    /\ last = NoCommand
    /\ tasks = NoTasks

NextConcurrent ==
    \/ \E t \in Tasks, cmd \in Commands : task_created(t, cmd)
    \/ \E t \in Tasks, points \in RallyPoints \cup CanvassingPoints :
          resume_from_defer(t, points)
    \/ \E t \in Tasks : update_stamina(t)
    \/ \E t \in Tasks : update_points(t)
    \/ \E t \in Tasks : followup_sent(t)

SpecConcurrent == InitConcurrent /\ [][NextConcurrent]_vars

----------------------------------------------------------------------------
(* SpecWrites: the campaign commands of user 1 with writes that may fail.   *)
(* retry_api_call raises out of sheet.update_cell after the third APIError  *)
(* (line 89) or at once on any other exception; nothing in the handler       *)
(* catches it before the except clause of lines 412-414 (449-451), which     *)
(* sends the generic answer.  The handler is over then and the event loop    *)
(* goes on to the next command.                                              *)

\* the calls of a campaign command that may raise; "" is none of them
Raises == {"", "update_cell 8", "update_cell 9"}

\* the handler undoing the write of the stamina when the write of the points fails
action_faulty_outcome_Rollback(cmd, points, raises) ==
    LET created == [Here EXCEPT !.tasks[1].pc = "defer", !.tasks[1].cmd = cmd]
        tested == task_step(created, 1, points)
        one == task_step(tested, 1, 0)
    IN  IF tested.tasks[1].pc = "send"
        THEN [msg |-> tested.tasks[1].msg, sheet |-> tested.sheet, failed |-> {}]
        ELSE IF raises # ""
        THEN [msg |-> "An error occurred", sheet |-> tested.sheet, failed |-> {raises}]
        ELSE [msg |-> "gained", sheet |-> task_step(one, 1, 0).sheet, failed |-> {}]

\* lines 394-414, 431-451 with the call in raises failing: what the command
\* answers, the sheet after it, and the call that failed
action_faulty_outcome(cmd, points, raises) ==
    LET created == [Here EXCEPT !.tasks[1].pc = "defer", !.tasks[1].cmd = cmd]
        tested == task_step(created, 1, points)
        one == task_step(tested, 1, 0)
    IN  IF tested.tasks[1].pc = "send"
        THEN [msg |-> tested.tasks[1].msg, sheet |-> tested.sheet, failed |-> {}]
        ELSE IF raises = "update_cell 8"
        THEN [msg |-> "An error occurred", sheet |-> tested.sheet, failed |-> {raises}]
        ELSE IF raises = "update_cell 9"
        THEN [msg |-> "An error occurred", sheet |-> one.sheet, failed |-> {raises}]
        ELSE [msg |-> "gained", sheet |-> task_step(one, 1, 0).sheet, failed |-> {}]

perform_action_faulty(cmd, points, raises) ==
    LET out == action_faulty_outcome(cmd, points, raises)
    IN  /\ points \in PointsOf(cmd)
        /\ signups' = IF ActionSheet = "All Signups" THEN out.sheet ELSE signups
        /\ winners' = IF ActionSheet = "All Signups" THEN winners ELSE out.sheet
        /\ last' = Answer(cmd, out.msg, out.failed)
        /\ UNCHANGED <<G3, G4, views, transfers, header_row, final_headers, retry,
                       missing, tasks>>

NextWrites ==
    \E cmd \in Commands, points \in RallyPoints \cup CanvassingPoints, raises \in Raises :
        perform_action_faulty(cmd, points, raises)

\* a candidate with stamina for two rallies at most, in the Primary phase
InitWrites ==
    /\ InitConcurrent
    /\ G4 = "Primary"
    /\ signups[3][8] <= 2 * RallyCost

SpecWrites == InitWrites /\ [][NextWrites]_vars

----------------------------------------------------------------------------
(* The claims.  They read the sheets by row and column number:              *)
(* column 1 User ID, 2 Name, 3 Seat ID, 4 Party, 8 Stamina, 9 Points,       *)
(* 10 Winner of "All Signups".                                              *)

DataRows(sheet) == 2..Len(sheet)

\* the rows of a sheet that hold a record of user u, as the bot finds them:
\* by the cell under the header "User ID"
RowsOfUser(sheet, u) ==
    {i \in DataRows(sheet) :
        \E c \in 1..Len(sheet[1]) : sheet[1][c] = "User ID" /\ sheet[i][c] = u}

\* the cell of row i under the header "Winner"
StatusOf(sheet, i) ==
    sheet[i][CHOOSE c \in 1..Len(sheet[1]) : sheet[1][c] = "Winner"]

\* the non-terminal records of user u across both registries
NonTerminalRecords(u) ==
    {<<"All Signups", i>> : i \in {j \in RowsOfUser(signups, u) :
                                     StatusOf(signups, j) \notin {"Withdrawn", "Loser"}}}
    \cup
    {<<"All Winners", i>> : i \in {j \in RowsOfUser(winners, u) :
                                     StatusOf(winners, j) \notin {"Withdrawn", "Loser"}}}

\* C1: no user has more than one non-terminal record (status neither
\* Withdrawn nor Loser) across the two registries, and for a user who has
\* one, /signup sends no seat list and a click on a seat button of a view of
\* that user appends no row.
C1_OneActiveRecordPerUser ==
    \A u \in Users :
        /\ Cardinality(NonTerminalRecords(u)) <= 1
        /\ NonTerminalRecords(u) # {} =>
              /\ \A state \in States, name \in Names, party \in Parties :
                    ~signup_outcome(u, state, name, party).view
              /\ \A view \in views : \A seat_id \in ButtonIds(view) :
                    view.user = u =>
                        /\ seat_outcome(view, seat_id).signups = signups
                        /\ seat_outcome(view, seat_id).msg # "signed up"

\* a user with a Loser record and a newer active record, whose seat view is
\* still alive: the next click on it is the rejected one
C1_Witness ==
    \E view \in views :
        /\ \E i \in RowsOfUser(signups, view.user) : StatusOf(signups, i) = "Loser"
        /\ \E i \in RowsOfUser(signups, view.user) : StatusOf(signups, i) = ""

\* row i of "All Signups" is the same record before and after the step, with
\* another stamina or another number of points
ActedOn(i) ==
    /\ Len(signups') = Len(signups)
    /\ i \in DataRows(signups)
    /\ \A c \in 1..7 : signups'[i][c] = signups[i][c]
    /\ <<signups'[i][8], signups'[i][9]>> # <<signups[i][8], signups[i][9]>>

\* the draws a command may be tried with, wider than either range
Draws == 0..20

\* C2: a rally that succeeds on a record with stamina s and points p leaves
\* stamina max(0, s - 10) and points p + d with d in 5..15; a canvassing
\* that succeeds leaves stamina max(0, s - 5) and points p + d with d in
\* 3..10.
C2_ActionArithmetic ==
    [][\A i \in DataRows(signups) :
          LET u == signups[i][1]
              s == signups[i][8]
              p == signups[i][9]
          IN  ActedOn(i) =>
                /\ \/ /\ signups'[i][8] = (IF s - 10 > 0 THEN s - 10 ELSE 0)
                      /\ signups'[i][9] - p \in 5..15
                   \/ ~\E d \in Draws : rally(u, d)
                /\ \/ /\ signups'[i][8] = (IF s - 5 > 0 THEN s - 5 ELSE 0)
                      /\ signups'[i][9] - p \in 3..10
                   \/ ~\E d \in Draws : canvassing(u, d)]_vars

\* a record after one rally and one canvassing
C2_Witness ==
    \E i \in DataRows(signups) :
        signups[i][8] = 85 /\ signups[i][9] \in 8..25

RaceOf(i) ==
    {j \in DataRows(signups) :
        /\ signups[j][10] \notin {"Withdrawn", "Winner", "Loser"}
        /\ signups[j][3] = signups[i][3]
        /\ signups[j][4] = signups[i][4]}

\* the first row in scan order among the rows of a race with the most points
FirstWithMostPoints(race) ==
    CHOOSE i \in race :
        /\ \A j \in race : signups[j][9] <= signups[i][9]
        /\ \A j \in race : signups[j][9] = signups[i][9] => i <= j

\* C4: a tally marks, in each group of non-terminal rows of one seat and
\* party, exactly one row Winner, the first in scan order with the most
\* points, and every other row of the group Loser.
C4_OneWinnerPerRace ==
    [][tally_winners(TRUE) =>
          \A i \in DataRows(signups) :
              signups[i][10] \notin {"Withdrawn", "Winner", "Loser"} =>
                  signups'[i][10] = (IF i = FirstWithMostPoints(RaceOf(i))
                                     THEN "Winner" ELSE "Loser")]_vars

\* C5: "All Winners" holds at most one row for each (user, seat) whose
\* signup row is marked Winner, however often /transfer_winners runs.
C5_OneWinnerRecordPerSeat ==
    \A j, k \in DOMAIN transfers : transfers[j] = transfers[k] => j = k

\* the rows the second pass of a tally writes to
TallyWrites(sheet) ==
    {i \in DataRows(sheet) : sheet[i][10] \notin {"Withdrawn", "Winner", "Loser"}}

\* C6: a tally that runs right after a tally leaves every Winner cell as
\* the first one left it, writes no cell and declares zero winners.
C6_TallyIdempotent ==
    [][tally_winners(TRUE) =>
          /\ TallySheet(signups') = signups'
          /\ TallyWrites(signups') = {}
          /\ winners_declared(signups') = 0]_vars

\* a sheet a tally has marked: a Winner and a Loser, and no row left open
C6_Witness ==
    /\ \E i \in DataRows(signups) : signups[i][10] = "Winner"
    /\ \E i \in DataRows(signups) : signups[i][10] = "Loser"
    /\ TallyWrites(signups) = {}

\* C7: a row is appended to "All Signups" only while signups are open.
C7_AppendOnlyWhileOpen ==
    [][Len(signups') > Len(signups) => get_current_cycle.signups_open]_vars

\* C8: the cleaned header list has the length of the raw header row, no
\* entry of it is empty, and no two entries are equal.
C8_HeadersUnique ==
    final_headers # <<>> =>
        /\ Len(final_headers) = Len(header_row)
        /\ \A k \in 1..Len(final_headers) : final_headers[k] # ""
        /\ \A j, k \in 1..Len(final_headers) :
              final_headers[j] = final_headers[k] => j = k

\* a sheet without its row i
WithoutRow(sheet, i) ==
    [k \in 1..(Len(sheet) - 1) |-> IF k < i THEN sheet[k] ELSE sheet[k + 1]]

\* the rows of user u whose name is character_name, trimmed and without case
NamedRows(u, character_name) ==
    {i \in DataRows(signups) :
        /\ signups[i][1] = u
        /\ Lower(Strip(signups[i][2])) = Lower(Strip(character_name))}

\* C9: /withdraw takes the first row of the user whose name is the given
\* one, trimmed and without case: with no such row the sheet stays as it
\* is; with that row marked Winner or Loser the sheet stays as it is;
\* otherwise that one row goes and every other row keeps its content and
\* its order.
C9_WithdrawRemovesOneRow ==
    \A u \in Users, character_name \in CharacterNames :
        LET rows == NamedRows(u, character_name)
            after == withdraw_outcome(u, character_name).signups
        IN  IF rows = {}
            THEN after = signups
            ELSE LET i == CHOOSE r \in rows : \A q \in rows : r <= q
                 IN  IF signups[i][10] \in {"Winner", "Loser"}
                     THEN after = signups
                     ELSE after = WithoutRow(signups, i)

\* a withdrawal that takes a row from between two others, asked for with a
\* name written another way than the row has it
C9_Witness ==
    \E u \in Users, character_name \in CharacterNames :
        /\ withdraw_outcome(u, character_name).msg = "has withdrawn"
        /\ \E i \in NamedRows(u, character_name) :
              /\ i < Len(signups)
              /\ signups[i][10] = ""
              /\ signups[i][2] # character_name
              /\ \A q \in NamedRows(u, character_name) : i <= q

\* C10: the Winner cell of a row changes only from "" to Winner or Loser and
\* only in a tally; a row marked Winner or Loser keeps its mark and is not
\* deleted by any step.
C10_StatusTransitions ==
    [][/\ Len(signups') = Len(signups) =>
              \A i \in DataRows(signups) :
                  \/ signups'[i][10] = signups[i][10]
                  \/ /\ signups[i][10] = ""
                     /\ signups'[i][10] \in {"Winner", "Loser"}
                     /\ tally_winners(TRUE)
       /\ Len(signups') = Len(signups) + 1 =>
              /\ \A i \in DataRows(signups) : signups'[i][10] = signups[i][10]
              /\ signups'[Len(signups')][10] = ""
       /\ Len(signups') < Len(signups) =>
              \E i \in DataRows(signups) :
                  /\ signups[i][10] \notin {"Winner", "Loser"}
                  /\ signups' = WithoutRow(signups, i)
       /\ Len(signups') <= Len(signups) + 1]_vars

\* a Winner that has been transferred, a Loser, and a row signed up after
\* the tally
C10_Witness ==
    /\ \E i \in DataRows(signups) : signups[i][10] = "Winner"
    /\ \E i \in DataRows(signups) : signups[i][10] = "Loser"
    /\ \E i \in DataRows(signups) : signups[i][10] = ""
    /\ transfers # <<>>

\* the table the phase selects for /rally and /canvassing
PhaseTable == IF G4 = "General" THEN winners ELSE signups

\* the first row of user u in the phase-selected table that is not
\* Withdrawn, or 0 when the user has none
ActiveRow(u) ==
    LET rows == {i \in RowsOfUser(PhaseTable, u) : StatusOf(PhaseTable, i) # "Withdrawn"}
    IN  IF rows = {} THEN 0 ELSE CHOOSE i \in rows : \A j \in rows : i <= j

\* C11: /rally (cost 10) and /canvassing (cost 5) by a user with no record,
\* or only Withdrawn ones, in the table of the phase answer "not signed up",
\* and by a user whose stamina is below the cost answer "Not enough
\* stamina!"; in both cases the table is left as it is.
C11_RejectedActionWritesNothing ==
    \A u \in Users, cost \in {10, 5}, d \in {3, 15} :
        LET out == ActionOutcome(PhaseTable, u, cost, d)
        IN  /\ ActiveRow(u) = 0 =>
                /\ out.msg = "You are not signed up or have withdrawn."
                /\ out.sheet = PhaseTable
            /\ (ActiveRow(u) # 0 /\ PhaseTable[ActiveRow(u)][8] < cost) =>
                /\ out.msg = "Not enough stamina!"
                /\ out.sheet = PhaseTable

\* a candidate with 5 of stamina left, too little for a rally, next to a
\* user who never signed up
C11_Witness ==
    /\ \E u \in Users : ActiveRow(u) # 0 /\ PhaseTable[ActiveRow(u)][8] = 5
    /\ \E u \in Users : ActiveRow(u) = 0

\* C12: a row appended to "All Signups" carries the user, the name and the
\* party of a /signup whose seat list is on screen, the phase of the cycle,
\* corruption 0, stamina 100, points 0 and an empty Winner cell, and its
\* seat is one listed to that user: a seat of the cycle year in the state
\* asked for.
C12_AppendedRow ==
    [][Len(signups') = Len(signups) + 1 =>
          LET row == signups'[Len(signups')]
          IN  /\ \A i \in 1..Len(signups) : signups'[i] = signups[i]
              /\ \E view \in views :
                    /\ row[1] = view.user
                    /\ row[2] = view.name
                    /\ row[4] = view.party
                    /\ \E k \in 1..Len(view.seats) : view.seats[k].SeatID = row[3]
                    /\ \E k \in 1..Len(CycleSeats) :
                          /\ CycleSeats[k].SeatID = row[3]
                          /\ CycleSeats[k].Office = row[6]
                          /\ CycleSeats[k].Year = CycleYear
                          /\ CycleSeats[k].State = view.state
              /\ row[5] = G4
              /\ row[7] = 0
              /\ row[8] = 100
              /\ row[9] = 0
              /\ row[10] = ""]_vars

\* the second user's row for the second seat of the list, signed up during
\* the General phase
C12_Witness ==
    \E i \in DataRows(signups) :
        /\ signups[i][1] = 2
        /\ signups[i][2] = "Bo"
        /\ signups[i][3] = "SEN-AU"
        /\ signups[i][5] = "General"

\* retry_api_call has returned or raised
RetryOver == retry.pc \in {"returned", "raised"}

\* the errors of APIErrors that the wrapper retries
Transient == {"Quota exceeded", "The service is currently unavailable."}

\* C13: retry_api_call comes to an end; it calls the operation at most 3
\* times; it returns with the first call that succeeds and calls no more;
\* after the k-th failure that it retries it has waited 1 s, then 2 s,
\* (2^(k-1) s); after the third such failure in a row it raises that failure
\* after 3 calls and 2 waits, without a third wait.
C13_RetryTerminates ==
    /\ <>RetryOver
    /\ [](/\ retry.calls <= 3
          /\ Len(retry.waits) <= 2
          /\ \A k \in 1..Len(retry.waits) :
                retry.waits[k] = (IF k = 1 THEN 1 ELSE 2)
          /\ retry.pc = "sleep" => Len(retry.waits) = retry.calls
          /\ retry.pc = "call" => Len(retry.waits) = retry.calls
          /\ retry.pc = "returned" =>
                /\ retry.result = "value"
                /\ Len(retry.waits) = retry.calls - 1
          /\ (retry.pc = "raised" /\ retry.error \in Transient) =>
                /\ retry.calls = 3
                /\ retry.waits = <<1, 2>>
                /\ retry.result = "APIError")
    /\ [][RetryOver => retry' = retry]_vars

\* the wrapper gave up: three calls, each answered "Quota exceeded"
C13_Witness ==
    /\ retry.pc = "raised"
    /\ retry.error = "Quota exceeded"
    /\ retry.calls = 3

\* C14: a call answered with an authentication failure is the last call of
\* the wrapper, at any attempt: it raises the authentication error at once
\* and does not wait after that call.
C14_AuthenticationErrorNotRetried ==
    retry.error \in {"Request had invalid authentication credentials.",
                     "INVALID AUTHENTICATION"} =>
        /\ retry.pc = "raised"
        /\ retry.result = "ValueError"
        /\ Len(retry.waits) = retry.calls - 1

\* the authentication failure came at the third attempt
C14_Witness ==
    /\ retry.error = "INVALID AUTHENTICATION"
    /\ retry.calls = 3

\* a command has run with faults in this step
Answered == last'.tick # last.tick

\* what a handler sends when it gives up
FailureMessages ==
    {"Error accessing signups data.", "Error accessing cycle data.",
     "Error accessing required sheets.", "Error accessing data sheet.",
     "An error occurred"}

\* C15: a seat click, /open_signups or /close_signups that finds the
\* "All Signups" worksheet or the cycle unavailable answers with an error,
\* and none of them answers with its success message unless the write was
\* made: the row appended, G3 set.
C15_NoSuccessWithoutWrite ==
    [][Answered =>
          /\ (last'.cmd = "seat_callback" /\ last'.msg = "signed up") =>
                Len(signups') = Len(signups) + 1
          /\ last'.msg = "Election signups are now OPEN!" =>
                ("Cycles" \notin missing /\ G3' = "TRUE")
          /\ last'.msg = "Election signups are now CLOSED!" =>
                ("Cycles" \notin missing /\ G3' = "FALSE")
          /\ (last'.cmd \in {"open_signups", "close_signups"} /\ "Cycles" \in missing) =>
                (last'.msg \in FailureMessages /\ G3' = G3)]_vars

\* C16: a command one of whose reads of a table's rows failed answers with a
\* failure and changes no sheet and no view; it does not go on as if the
\* table were empty.
C16_FailedReadIsReported ==
    [][(Answered /\ last'.failed # {}) =>
          /\ last'.msg \in FailureMessages
          /\ UNCHANGED <<signups, winners, G3, views>>]_vars

\* C17: /tally_winners, /transfer_winners, /open_signups and /close_signups
\* run by a user without the administrator permission change no cell of
\* either registry and neither G3 nor G4.
C17_AdminOnly ==
    [][(\/ tally_winners(FALSE)
        \/ transfer_winners(FALSE)
        \/ open_signups(FALSE)
        \/ close_signups(FALSE))
          => UNCHANGED <<signups, winners, G3, G4>>]_vars

\* a state in which each of the four commands would write if an
\* administrator ran it
C17_Witness ==
    /\ G3 = "TRUE"
    /\ winners_declared(signups) > 0
    /\ ToTransfer(get_all_records_safe(signups), get_all_records_safe(winners)) # <<>>

\* the column of a sheet under a header name, 0 if there is none
ColumnOf(sheet, header) ==
    IF \E c \in 1..Len(sheet[1]) : sheet[1][c] = header
    THEN CHOOSE c \in 1..Len(sheet[1]) : sheet[1][c] = header
    ELSE 0

\* the rows of the table of the phase that a poll of the scope includes:
\* phase equal to the phase of the cycle, not Withdrawn and, for a state,
\* of that state
Included(scope) ==
    {i \in DataRows(PhaseTable) :
        /\ ColumnOf(PhaseTable, "Phase") # 0
        /\ PhaseTable[i][ColumnOf(PhaseTable, "Phase")] = G4
        /\ StatusOf(PhaseTable, i) # "Withdrawn"
        /\ scope # "nation" =>
              /\ ColumnOf(PhaseTable, "State") # 0
              /\ PhaseTable[i][ColumnOf(PhaseTable, "State")] = scope}

\* the k-th row of a set of rows in scan order
Nth(rows, k) == CHOOSE i \in rows : Cardinality({j \in rows : j < i}) = k - 1

RECURSIVE SumPoints(_)
SumPoints(rows) ==
    IF rows = {} THEN 0
    ELSE LET i == CHOOSE r \in rows : TRUE
         IN  PhaseTable[i][ColumnOf(PhaseTable, "Points")] + SumPoints(rows \ {i})

\* the sum of the tenths of a percent of the lines 2..n of a poll answer
RECURSIVE SumTenths(_, _)
SumTenths(msg, n) == IF n < 2 THEN 0 ELSE msg[n][3] + SumTenths(msg, n - 1)

Abs(x) == IF x < 0 THEN -x ELSE x

\* C18: /poll divides by no zero; with no included record, or with included
\* records whose points sum to zero, it answers "no data"; otherwise it
\* answers one line per included record, in order, with points/total*100
\* to the nearest tenth, and the lines sum to 100 up to the rounding of
\* each line (0.05 per line).
C18_PollPercentages ==
    \A scope \in Scopes, up \in BOOLEAN :
        LET out == poll_outcome(scope, up)
            rows == Included(scope)
            total == SumPoints(rows)
        IN  /\ 0 \notin out.divisors
            /\ IF rows = {} \/ total = 0
               THEN /\ out.divisors = {}
                    /\ out.msg \in
                          {<<"No candidates to poll.">>, <<"No polling data available.">>,
                           <<"No candidates in Austin to poll.">>,
                           <<"No polling data available in Austin.">>}
               ELSE /\ Len(out.msg) = 1 + Cardinality(rows)
                    /\ \A k \in 1..Cardinality(rows) :
                          LET row == PhaseTable[Nth(rows, k)]
                              line == out.msg[k + 1]
                          IN  /\ line[1] = row[2]
                              /\ line[2] = row[4]
                              /\ 2 * Abs(line[3] * total - 1000 * row[9]) <= total
                    /\ 2 * Abs(SumTenths(out.msg, Len(out.msg)) - 1000) <= Cardinality(rows)

\* a national poll of three candidates with equal points: 33.3 each, 99.9
\* in all
C18_Witness ==
    /\ last.cmd = "poll"
    /\ Len(last.msg) = 4
    /\ last.msg[1] = "National Poll Results:"
    /\ SumTenths(last.msg, 4) = 999

----------------------------------------------------------------------------
(* Two campaign commands in the event loop together *)

\* both handlers have handed "... gained ... points!" to followup.send()
BothReported(ts) ==
    \A t \in Tasks : ts[t].pc \in {"send", "done"} /\ ts[t].msg = "gained"

\* the row holds the stamina less both costs and the points plus both draws; what
\* a handler read is its local stamina plus its cost, and its new_points less its draw
ReflectsBoth(st) ==
    LET ts == st.tasks
        row == st.sheet[ts[1].i]
        read_stamina(t) == ts[t].stamina + Cost(ts[t].cmd)
        read_points(t) == ts[t].new_points - ts[t].points
    IN  /\ ts[1].i = ts[2].i
        /\ row[8] = Max2(read_stamina(1), read_stamina(2))
                      - Cost(ts[1].cmd) - Cost(ts[2].cmd)
        /\ row[9] = Min({read_points(1), read_points(2)})
                      + ts[1].points + ts[2].points

LostUpdate(st) == BothReported(st.tasks) /\ ~ReflectsBoth(st)

\* the states one statement run of one handler away from st
Successors(st) ==
    UNION {{task_step(st, t, points) :
               points \in IF st.tasks[t].pc = "defer" THEN PointsOf(st.tasks[t].cmd)
                          ELSE {0}} :
           t \in {o \in Tasks : Resumable(st.tasks, o)}}

\* the states that the event loop can bring about from those of S
RECURSIVE Reachable(_)
Reachable(S) ==
    LET N == S \cup UNION {Successors(st) : st \in S}
    IN  IF N = S THEN S ELSE Reachable(N)

\* C19 (as the code has it): two campaign commands of one user that are in
\* the event loop together run their reads and writes one after the other, so
\* whenever both have reported success the record holds the stamina less both
\* costs and the points plus both draws: no update is lost.
C19_NoLostUpdate == ~LostUpdate(Here)

\* both handlers are suspended in followup.send() at once, each with a success
C19_Witness ==
    /\ \A t \in Tasks : tasks[t].pc = "send" /\ tasks[t].msg = "gained"
    /\ ReflectsBoth(Here)

\* C19 (as stated): when both handlers are suspended at defer() and the record
\* has the stamina for each, some interleaving from there reaches a state where
\* both report success and the record reflects only one of them.
C19_LostUpdateReachable ==
    (/\ ActionSheet = "All Signups"
     /\ \A t \in Tasks :
           /\ tasks[t].pc = "defer"
           /\ task_step(Here, t, Min(PointsOf(tasks[t].cmd))).tasks[t].pc
                 = "update_stamina")
    => \E st \in Reachable({Here}) : LostUpdate(st)

----------------------------------------------------------------------------
(* The campaign commands in the General phase *)

\* C20: in the General phase a user whose winning record transfer_winners has
\* appended to "All Winners" is found there by the campaign commands: /rally
\* does not answer that the user is not signed up.
C20_TransferredWinnerIsFound ==
    G4 = "General" =>
        \A k \in DOMAIN transfers : \A points \in RallyPoints :
            ActionOutcome(winners, transfers[k][1], RallyCost, points).msg
                # "You are not signed up or have withdrawn."

----------------------------------------------------------------------------
(* The registry after repeated tallies *)

\* C21: "All Signups" holds at most one row marked Winner for each seat and
\* party, also after a new candidate signs up for a seat and party that has
\* a Winner and the tally runs again.
C21_OneWinnerRowPerSeatAndParty ==
    \A i, j \in DataRows(signups) :
        (/\ signups[i][10] = "Winner"
         /\ signups[j][10] = "Winner"
         /\ signups[i][3] = signups[j][3]
         /\ signups[i][4] = signups[j][4]) => i = j

----------------------------------------------------------------------------
(* The campaign commands of a user with an earlier record *)

\* the rows of "All Signups" that hold a record of user u with an empty Winner cell
ActiveRows(u) == {i \in RowsOfUser(signups, u) : signups[i][10] = ""}

\* C22: a /rally of a user who has an active record (Winner cell empty)
\* that changes "All Signups" changes the stamina and the points of that
\* record and nothing else, also when an earlier Loser record of the user
\* stands in the sheet.
C22_ActionOnActiveRecord ==
    [][\A u \in Users :
          (/\ signups' # signups
           /\ ActiveRows(u) # {}
           /\ \E points \in Ends(RallyPoints) : rally(u, points))
          => \E i \in ActiveRows(u) :
                /\ Len(signups') = Len(signups)
                /\ \A j \in DataRows(signups) \ {i} : signups'[j] = signups[j]
                /\ \A c \in (1..10) \ {8, 9} : signups'[i][c] = signups[i][c]
                /\ signups'[i][8] = signups[i][8] - RallyCost]_vars


\* C23: a user who has a record with an empty Winner cell under a name gets
\* that record removed by /withdraw with that name, whatever other records
\* the user has, an earlier Loser record with the same name among them.
C23_WithdrawRemovesActiveRecord ==
    \A u \in Users, character_name \in CharacterNames :
        \A i \in ActiveRows(u) \cap NamedRows(u, character_name) :
            withdraw_outcome(u, character_name).signups = WithoutRow(signups, i)

----------------------------------------------------------------------------
(* The header row of "All Winners" *)

\* C24: starting from an empty "All Winners", after any runs of
\* /transfer_winners the sheet holds the header row once, as its first row:
\* no run appends the header row to a sheet that has it.
C24_OneHeaderRow ==
    winners # <<>> =>
        /\ winners[1] = WinnersHeaders
        /\ \A i \in 2..Len(winners) : winners[i] # WinnersHeaders

----------------------------------------------------------------------------
(* A campaign command whose second write fails *)

\* C25: when the write of the stamina succeeds and the write of the points
\* fails, the record keeps the lowered stamina and its old points, nothing
\* else changes and the user gets the generic error answer; the command
\* after a failed one is served as any other: it is answered, and it spends
\* stamina and adds points when the record has the stamina for it.
C25_PartialWriteIsKept ==
    /\ [][(Answered /\ last'.failed = {"update_cell 9"}) =>
             /\ last'.msg = "An error occurred"
             /\ Len(signups') = Len(signups)
             /\ \E i \in RowsOfUser(signups, 1) :
                   /\ signups'[i][8] = signups[i][8] - Cost(last'.cmd)
                   /\ signups'[i][8] < signups[i][8]
                   /\ \A c \in (1..10) \ {8} : signups'[i][c] = signups[i][c]
                   /\ \A j \in DataRows(signups) \ {i} : signups'[j] = signups[j]
             /\ winners' = winners]_vars
    /\ [][(Answered /\ last.failed # {} /\ last'.failed = {}) =>
             \E i \in RowsOfUser(signups, 1) :
                IF signups[i][8] < Cost(last'.cmd)
                THEN last'.msg = "Not enough stamina!" /\ signups' = signups
                ELSE /\ last'.msg = "gained"
                     /\ signups'[i][8] = signups[i][8] - Cost(last'.cmd)
                     /\ signups'[i][9] - signups[i][9] \in PointsOf(last'.cmd)]_vars

\* the record after a rally whose second write failed: stamina spent, no points
C25_Witness ==
    /\ last.failed = {"update_cell 9"}
    /\ last.cmd = "rally"
    /\ \E i \in RowsOfUser(signups, 1) :
          signups[i][8] = 2 * RallyCost - RallyCost /\ signups[i][9] = 0

----------------------------------------------------------------------------
(* The registry right after a tally *)

\* C26: the sheet a tally leaves has no row with an open Winner cell: every
\* row that was open is marked Winner or Loser and keeps its other cells,
\* and every row that was marked already is as it was.
C26_TallyLeavesNoOpenRow ==
    LET after == TallySheet(signups)
    IN  /\ Len(after) = Len(signups)
        /\ after[1] = signups[1]
        /\ \A i \in DataRows(signups) :
              IF signups[i][10] \in {"Withdrawn", "Winner", "Loser"}
              THEN after[i] = signups[i]
              ELSE /\ after[i][10] \in {"Winner", "Loser"}
                   /\ \A c \in 1..9 : after[i][c] = signups[i][c]

\* a second tally has run: a user who lost the first and signed up again has
\* won, and the row marked Loser then is still there
C26_Witness ==
    /\ TallyWrites(signups) = {}
    /\ \E i, j \in DataRows(signups) :
          /\ i < j
          /\ signups[i][1] = signups[j][1]
          /\ signups[i][10] = "Loser"
          /\ signups[j][10] = "Winner"

----------------------------------------------------------------------------
(* The status Withdrawn *)

\* no data row of a sheet holds "Withdrawn" under the header "Winner"
NoWithdrawn(sheet) == \A i \in DataRows(sheet) : StatusOf(sheet, i) # "Withdrawn"

\* C27: no record of either registry has the status Withdrawn in any
\* reachable state, and a withdrawal that is accepted takes the row out of
\* "All Signups" instead of marking it.
C27_WithdrawnNeverWritten ==
    /\ NoWithdrawn(signups)
    /\ NoWithdrawn(winners)
    /\ \A u \in Users, character_name \in CharacterNames :
          LET out == withdraw_outcome(u, character_name)
          IN  out.msg = "has withdrawn" =>
                 /\ Len(out.signups) = Len(signups) - 1
                 /\ NoWithdrawn(out.signups)

\* a sheet with a Winner, a Loser and an open record that its user can withdraw
C27_Witness ==
    /\ \E i \in DataRows(signups) : signups[i][10] = "Winner"
    /\ \E i \in DataRows(signups) : signups[i][10] = "Loser"
    /\ \E u \in Users, character_name \in CharacterNames :
          withdraw_outcome(u, character_name).msg = "has withdrawn"

====
